---- MODULE Spec2Model ----
(***************************************************************************)
(* Agent registry and health reconciliation of the supervisor              *)
(* (src/supervisor/registry.py): load_registry, health_check_agents,       *)
(* save_registry_statuses, get_agent and check_agent_live_status, run as   *)
(* asyncio coroutines of one event loop.  A coroutine runs atomically from *)
(* one await to the next; the awaits are the health probe (client.get) and *)
(* the closing of the httpx client on leaving the `async with` block.      *)
(***************************************************************************)
EXTENDS Integers, Sequences, FiniteSets, TLC

\* ------------------------------------------------------------- bounds
\* Longest registry file (number of entries) the model starts from.
MaxEntries == 2
\* Number of executions of the sweep health_check_agents.
MaxSweeps == 1
\* Number of executions of the live query check_agent_live_status.
MaxQueries == 1
\* Edits of the registry file by others after load.
MaxEdits == 1
\* Concurrent lookup() calls of the long-term memory.
MaxLookups == 2
\* Cap of access_count.
MaxAccess == 3

\* ------------------------------------------------------------- values
\* A key that a JSON entry does not carry.
Absent == "<absent>"
\* The registry file does not exist / does not hold JSON.
Missing == "<missing>"
Corrupt == "<corrupt>"

Ids == {"a", "b"}
Statuses == {"healthy", "offline", "unknown"}

\* Status of an Agent built without a 'status' argument (shared/models.py).
AgentDefaultStatus == "unknown"

\* The entries a registry file of the model is made of: entries with and
\* without 'id', 'url' and 'status', two of them with the same id.
EntryPool ==
    { [id |-> "a", url |-> "http://x", status |-> Absent],
      [id |-> "a", url |-> "http://y", status |-> "healthy"],
      [id |-> "b", url |-> "http://y", status |-> "offline"],
      [id |-> Absent, url |-> "http://x", status |-> "healthy"],
      [id |-> "b", url |-> Absent, status |-> Absent] }

RECURSIVE SeqsUpTo(_, _)
SeqsUpTo(S, n) ==
    IF n = 0 THEN {<<>>}
    ELSE LET shorter == SeqsUpTo(S, n - 1)
         IN  shorter \cup {Append(f, e) : f \in {g \in shorter : Len(g) = n - 1}, e \in S}

Files == SeqsUpTo(EntryPool, MaxEntries)

\* What one health probe (GET <url>/health, timeout 3.0) can come back with:
\* a transport failure or timeout (err), or a response with a status code
\* and a body.  Bodies: a JSON object whose 'status' is 'healthy'; a JSON
\* object without that; valid JSON that is no object (a list, null, a
\* string); text that is not JSON.
Codes == {200, 204, 500}
Bodies == {"healthy_object", "other_object", "non_object", "unparseable"}
TransportError == [err |-> TRUE, code |-> 0, body |-> "unparseable"]
Outcomes ==
    {TransportError} \cup
    {[err |-> FALSE, code |-> c, body |-> b] : c \in Codes, b \in Bodies}
NoProbe == [by |-> "none", n |-> 0, i |-> 0, outcome |-> TransportError]

\* The executions of each operation, numbered in the order they start.
Sweeps == 1..MaxSweeps
Queries == 1..MaxQueries

VARIABLES
    disk,        \* REGISTRY_FILE: [state, entries, writable, text]
    agents,      \* _agents: sequence of Agent records [id, url, status]
    boot,        \* "start", "loaded" or "raised": how load_registry() ended
    sweep,       \* per sweep execution: [pc, i, sent, got, saved, saves]: the agent
                 \* index of the loop, probes sent and resolved, result and
                 \* number of calls of save_registry_statuses()
    query,       \* per live query: [pc, id, i, sent, got, saved, saves, result]
    inflight,    \* outstanding probes: <<"sweep"|"query", execution, agent index>>
    loadedFrom,  \* history: the file content load_registry() read
    lastProbe,   \* history: the probe completed last: [by, n, i, outcome]
    health,      \* environment: the outcome a probe of agent i gets while the
                 \* agents' reachability does not change
    first,       \* history: _agents and the file as the first round of sweeps
                 \* left them: [done, agents, disk]
    edit,        \* history of the edits of the file by others: [n, saves]
    ltmRows,     \* LongTermMemory: the table analysis_cache, by transcript_hash
    ltmCalls,    \* LongTermMemory: per lookup() call: [pc, transcript, row, ret]
    ltmSaved,    \* history: per transcript, the result of the latest save()
                 \* since the latest clear_cache()
    ltmHits      \* history: per transcript, the lookups that returned its
                 \* cached result since its latest save()

regVars == <<disk, agents, boot, sweep, query, inflight, loadedFrom, lastProbe>>
envVars == <<health, first, edit>>
ltmVars == <<ltmRows, ltmCalls, ltmSaved, ltmHits>>
vars == <<disk, agents, boot, sweep, query, inflight, loadedFrom, lastProbe,
          health, first, edit, ltmRows, ltmCalls, ltmSaved, ltmHits>>

\* ------------------------------------------------------------- files
\* writable: whether REGISTRY_FILE can be opened for writing.  text: how the
\* JSON is laid out, as its author wrote it or as json.dump(..., indent=2)
\* writes it.
AsFound == "as found"
JsonDumpIndent2 == "json.dump indent=2"
OkFile(entries, writable) ==
    [state |-> "ok", entries |-> entries, writable |-> writable, text |-> AsFound]
MissingFile == [state |-> Missing, entries |-> <<>>, writable |-> TRUE, text |-> AsFound]
CorruptFile == [state |-> Corrupt, entries |-> <<>>, writable |-> TRUE, text |-> AsFound]

\* ------------------------------------------------------------- load_registry
\* Variant: the file's 'status' is not passed on to the Agent.
AgentOf_DropsFileStatus(data) ==
    [id |-> data.id, url |-> data.url, status |-> AgentDefaultStatus]

\* Agent(**data): every key of the entry is passed to the model, 'status'
\* included; an entry without 'status' gets the model's default.
AgentOf(data) ==
    [id |-> data.id, url |-> data.url,
     status |-> IF data.status = Absent THEN AgentDefaultStatus ELSE data.status]

\* Variant: the loop stops (break) at the first entry without 'id' or 'url'.
LoadEntries_StopsAtInvalid(agents_data, acc) ==
    LET bad == {k \in 1..Len(agents_data) :
                   agents_data[k].id = Absent \/ agents_data[k].url = Absent}
        n == IF bad = {} THEN Len(agents_data)
             ELSE (CHOOSE k \in bad : \A m \in bad : k <= m) - 1
    IN  acc \o [k \in 1..n |-> AgentOf(agents_data[k])]

\* Variant: an entry whose id has been loaded already is skipped.
RECURSIVE LoadEntries_SkipsSeenIds(_, _)
LoadEntries_SkipsSeenIds(agents_data, acc) ==
    IF agents_data = <<>> THEN acc
    ELSE LET data == Head(agents_data)
         IN  IF \/ data.id = Absent
                \/ data.url = Absent
                \/ \E k \in 1..Len(acc) : acc[k].id = data.id
             THEN LoadEntries_SkipsSeenIds(Tail(agents_data), acc)
             ELSE LoadEntries_SkipsSeenIds(Tail(agents_data),
                                           Append(acc, AgentOf(data)))

\* The loop over agents_data: an entry without 'id' or without 'url' is
\* skipped (continue), any other is appended.
RECURSIVE LoadEntries(_, _)
LoadEntries(agents_data, acc) ==
    IF agents_data = <<>> THEN acc
    ELSE LET data == Head(agents_data)
         IN  IF data.id = Absent \/ data.url = Absent
             THEN LoadEntries(Tail(agents_data), acc)
             ELSE LoadEntries(Tail(agents_data), Append(acc, AgentOf(data)))

\* load_registry(): FileNotFoundError is caught and leaves the registry
\* empty; a file that is not JSON raises out of load_registry (only
\* FileNotFoundError is caught) before _agents is assigned.
load_registry ==
    /\ boot = "start"
    /\ loadedFrom' = disk
    /\ IF disk.state = "ok"
       THEN /\ agents' = LoadEntries(disk.entries, <<>>)
            /\ boot' = "loaded"
       ELSE IF disk.state = Missing
       THEN /\ agents' = <<>>
            /\ boot' = "loaded"
       ELSE /\ agents' = agents
            /\ boot' = "raised"
    /\ UNCHANGED <<disk, sweep, query, inflight, lastProbe>>
    /\ UNCHANGED <<envVars, ltmVars>>

\* ------------------------------------------------------------- classification
\* Variant: the body's 'status' is compared with another word than 'healthy'.
SweepIsHealthy_WrongField(o) ==
    IF o.body \in {"unparseable", "non_object"} THEN o.code = 200 ELSE FALSE

\* health_check_agents, lines 40-55.  response.json() raising, or .get
\* raising on JSON that is no object, ends in the inner except, which takes
\* the status code alone; `and` does not evaluate .get when the code is
\* not 200.
SweepIsHealthy(o) ==
    IF o.body = "unparseable" THEN o.code = 200
    ELSE IF o.code # 200 THEN FALSE
    ELSE IF o.body = "non_object" THEN o.code = 200
    ELSE o.body = "healthy_object"

SweepClassify(o) ==
    IF o.err THEN "offline"
    ELSE IF SweepIsHealthy(o) THEN "healthy" ELSE "offline"

\* Variant: the live query asks for a JSON object and takes any other
\* parseable body as 'offline'.
LiveClassify_ChecksBodyType(o) ==
    IF o.err THEN "offline"
    ELSE IF o.body = "unparseable"
         THEN IF o.code = 200 THEN "healthy" ELSE "offline"
    ELSE IF o.code = 200 /\ o.body = "healthy_object" THEN "healthy" ELSE "offline"

\* check_agent_live_status, lines 107-120.
LiveClassify(o) ==
    IF o.err THEN "offline"
    ELSE IF o.body = "unparseable"
         THEN IF o.code = 200 THEN "healthy" ELSE "offline"
    ELSE IF o.code # 200 THEN "offline"
    ELSE IF o.body = "non_object"
         THEN IF o.code = 200 THEN "healthy" ELSE "offline"
    ELSE IF o.body = "healthy_object" THEN "healthy" ELSE "offline"

\* ------------------------------------------------------------- save_registry_statuses
\* status_map = {a.id: a.status for a in _agents}: a later agent with the
\* same id overwrites an earlier one.
HasId(ags, aid) == \E k \in 1..Len(ags) : ags[k].id = aid
LastWithId(ags, aid) ==
    CHOOSE k \in 1..Len(ags) :
        /\ ags[k].id = aid
        /\ \A m \in 1..Len(ags) : ags[m].id = aid => m <= k
\* Variant: the first agent with the id decides, not the last.
StatusMap_FirstWins(ags, aid) ==
    ags[CHOOSE k \in 1..Len(ags) :
            /\ ags[k].id = aid
            /\ \A m \in 1..Len(ags) : ags[m].id = aid => k <= m].status

StatusMap(ags, aid) == ags[LastWithId(ags, aid)].status

\* Variant: entry.setdefault('status', ...): a status on disk is kept.
Overlay_KeepsStatusOnDisk(disk_agents, ags) ==
    [k \in 1..Len(disk_agents) |->
        IF HasId(ags, disk_agents[k].id) /\ disk_agents[k].status = Absent
        THEN [disk_agents[k] EXCEPT !.status = StatusMap(ags, disk_agents[k].id)]
        ELSE disk_agents[k]]

\* Variant: only the entries of loaded agents are written back.
Overlay_DropsOtherEntries(disk_agents, ags) ==
    LET IsLoaded(entry) == HasId(ags, entry.id)
        kept == SelectSeq(disk_agents, IsLoaded)
    IN  [k \in 1..Len(kept) |-> [kept[k] EXCEPT !.status = StatusMap(ags, kept[k].id)]]

\* Variant: status_map.get(id, 'unknown') is written to every entry.
Overlay_DefaultsToUnknown(disk_agents, ags) ==
    [k \in 1..Len(disk_agents) |->
        [disk_agents[k] EXCEPT !.status =
            IF HasId(ags, disk_agents[k].id)
            THEN StatusMap(ags, disk_agents[k].id)
            ELSE "unknown"]]

\* The loop over disk_agents: entry['status'] is set for the entries whose
\* id is a key of status_map; everything else is written back as read.
Overlay(disk_agents, ags) ==
    [k \in 1..Len(disk_agents) |->
        IF HasId(ags, disk_agents[k].id)
        THEN [disk_agents[k] EXCEPT !.status = StatusMap(ags, disk_agents[k].id)]
        ELSE disk_agents[k]]

\* Variant: the statuses are appended to the file as new entries, one per
\* agent, and the entries read are written back as they were.
SavedFile_AppendsAgents(file, ags) ==
    IF file.state = "ok" /\ file.writable
    THEN [file EXCEPT !.entries = @ \o ags, !.text = JsonDumpIndent2]
    ELSE file

\* Variant: a file that cannot be read is written from the agents in
\* memory (open(..., 'w') creates or truncates it).
SavedFile_CreatesFile(file, ags) ==
    IF file.state = "ok" /\ file.writable
    THEN [file EXCEPT !.entries = Overlay(file.entries, ags),
                      !.text = JsonDumpIndent2]
    ELSE IF file.state # "ok"
    THEN [state |-> "ok", entries |-> ags, writable |-> TRUE, text |-> JsonDumpIndent2]
    ELSE file

\* The file after save_registry_statuses(): a file that cannot be read
\* (open or json.load raises) or cannot be opened for writing is left as it
\* is; the exception is caught and logged.
SavedFile(file, ags) ==
    IF file.state = "ok" /\ file.writable
    THEN [file EXCEPT !.entries = Overlay(file.entries, ags),
                      !.text = JsonDumpIndent2]
    ELSE file
SaveResult(file) ==
    IF file.state = "ok" /\ file.writable THEN "ok" ELSE "failed"

\* ------------------------------------------------------------- list_agents
list_agents == agents

\* ------------------------------------------------------------- get_agent
\* Variant: an unknown id yields the first agent instead of None.
get_agent_FallsBackToFirst(ags, agent_id) ==
    IF HasId(ags, agent_id)
    THEN CHOOSE k \in 1..Len(ags) :
            /\ ags[k].id = agent_id
            /\ \A m \in 1..Len(ags) : ags[m].id = agent_id => k <= m
    ELSE IF ags = <<>> THEN 0 ELSE 1

\* Variant: the loop keeps going and the last agent with the id is returned.
get_agent_LastMatch(ags, agent_id) ==
    IF HasId(ags, agent_id) THEN LastWithId(ags, agent_id) ELSE 0

\* Index of the first agent with that id, 0 for None.
get_agent(ags, agent_id) ==
    IF HasId(ags, agent_id)
    THEN CHOOSE k \in 1..Len(ags) :
            /\ ags[k].id = agent_id
            /\ \A m \in 1..Len(ags) : ags[m].id = agent_id => k <= m
    ELSE 0

\* ------------------------------------------------------------- health_check_agents
\* Variant: the status is assigned by id, to every agent that has it.
SetStatus_EveryAgentWithId(ags, k, st) ==
    [m \in 1..Len(ags) |->
        IF ags[m].id = ags[k].id THEN [ags[m] EXCEPT !.status = st] ELSE ags[m]]

SetStatus(ags, k, st) == [ags EXCEPT ![k].status = st]

\* Variant: the probes of all agents are sent at once (a gather).
SweepStart_AllAtOnce(s) ==
    /\ boot = "loaded"
    /\ sweep[s].pc = "idle"
    /\ \A r \in Sweeps : r < s => sweep[r].pc # "idle"
    /\ IF agents = <<>>
       THEN /\ sweep' = [sweep EXCEPT ![s].pc = "closing"]
            /\ inflight' = inflight
       ELSE /\ sweep' = [sweep EXCEPT ![s].pc = "probing", ![s].i = 1,
                                       ![s].sent = Len(agents)]
            /\ inflight' = inflight \cup {<<"sweep", s, k>> : k \in 1..Len(agents)}
    /\ UNCHANGED <<disk, agents, boot, query, loadedFrom, lastProbe>>
    /\ UNCHANGED <<envVars, ltmVars>>

\* Entering the loop: the first probe is sent (await client.get); with no
\* agents the loop body never runs.
SweepStart(s) ==
    /\ boot = "loaded"
    /\ sweep[s].pc = "idle"
    /\ \A r \in Sweeps : r < s => sweep[r].pc # "idle"
    /\ IF agents = <<>>
       THEN /\ sweep' = [sweep EXCEPT ![s].pc = "closing"]
            /\ inflight' = inflight
       ELSE /\ sweep' = [sweep EXCEPT ![s].pc = "probing", ![s].i = 1, ![s].sent = 1]
            /\ inflight' = inflight \cup {<<"sweep", s, 1>>}
    /\ UNCHANGED <<disk, agents, boot, query, loadedFrom, lastProbe>>
    /\ UNCHANGED <<envVars, ltmVars>>

\* Variant: save_registry_statuses() is called inside the loop, after every
\* status assignment, and not after it.
SweepProbeDone_SavesEachTime(s, o) ==
    /\ sweep[s].pc = "probing"
    /\ <<"sweep", s, sweep[s].i>> \in inflight
    /\ LET i == sweep[s].i
       IN  /\ agents' = SetStatus(agents, i, SweepClassify(o))
           /\ lastProbe' = [by |-> "sweep", n |-> s, i |-> i, outcome |-> o]
           /\ disk' = SavedFile(disk, agents')
           /\ IF i < Len(agents)
              THEN /\ sweep' = [sweep EXCEPT ![s].i = i + 1,
                                              ![s].sent = @ + 1,
                                              ![s].got = @ + 1,
                                              ![s].saves = @ + 1]
                   /\ inflight' = (inflight \ {<<"sweep", s, i>>})
                                      \cup {<<"sweep", s, i + 1>>}
              ELSE /\ sweep' = [sweep EXCEPT ![s].pc = "done", ![s].got = @ + 1,
                                              ![s].saved = SaveResult(disk),
                                              ![s].saves = @ + 1]
                   /\ inflight' = inflight \ {<<"sweep", s, i>>}
    /\ UNCHANGED <<boot, query, loadedFrom>>
    /\ UNCHANGED <<envVars, ltmVars>>

\* Variant: a probe that raises ends the loop (the try is around the loop,
\* not inside it).
SweepProbeDone_StopsOnError(s, o) ==
    /\ sweep[s].pc = "probing"
    /\ <<"sweep", s, sweep[s].i>> \in inflight
    /\ LET i == sweep[s].i
       IN  /\ agents' = SetStatus(agents, i, SweepClassify(o))
           /\ lastProbe' = [by |-> "sweep", n |-> s, i |-> i, outcome |-> o]
           /\ IF i < Len(agents) /\ ~o.err
              THEN /\ sweep' = [sweep EXCEPT ![s].i = i + 1,
                                              ![s].sent = @ + 1,
                                              ![s].got = @ + 1]
                   /\ inflight' = (inflight \ {<<"sweep", s, i>>})
                                      \cup {<<"sweep", s, i + 1>>}
              ELSE /\ sweep' = [sweep EXCEPT ![s].pc = "closing", ![s].got = @ + 1]
                   /\ inflight' = inflight \ {<<"sweep", s, i>>}
    /\ UNCHANGED <<disk, boot, query, loadedFrom>>
    /\ UNCHANGED <<envVars, ltmVars>>

\* Variant: the exception of a probe that raises is not caught and ends
\* health_check_agents before the remaining agents and the save.
SweepProbeDone_RaisesOnError(s, o) ==
    /\ sweep[s].pc = "probing"
    /\ <<"sweep", s, sweep[s].i>> \in inflight
    /\ LET i == sweep[s].i
       IN  IF o.err
           THEN /\ sweep' = [sweep EXCEPT ![s].pc = "raised", ![s].got = @ + 1]
                /\ inflight' = inflight \ {<<"sweep", s, i>>}
                /\ UNCHANGED <<agents, lastProbe>>
           ELSE /\ agents' = SetStatus(agents, i, SweepClassify(o))
                /\ lastProbe' = [by |-> "sweep", n |-> s, i |-> i, outcome |-> o]
                /\ IF i < Len(agents)
                   THEN /\ sweep' = [sweep EXCEPT ![s].i = i + 1,
                                                   ![s].sent = @ + 1,
                                                   ![s].got = @ + 1]
                        /\ inflight' = (inflight \ {<<"sweep", s, i>>})
                                           \cup {<<"sweep", s, i + 1>>}
                   ELSE /\ sweep' = [sweep EXCEPT ![s].pc = "closing",
                                                   ![s].got = @ + 1]
                        /\ inflight' = inflight \ {<<"sweep", s, i>>}
    /\ UNCHANGED <<disk, boot, query, loadedFrom>>
    /\ UNCHANGED <<envVars, ltmVars>>

\* The awaited probe of agent i comes back with outcome o: the status is
\* assigned and the loop goes on to send the next probe, or leaves the
\* `async with` block after the last agent.
SweepProbeDone(s, o) ==
    /\ sweep[s].pc = "probing"
    /\ <<"sweep", s, sweep[s].i>> \in inflight
    /\ LET i == sweep[s].i
       IN  /\ agents' = SetStatus(agents, i, SweepClassify(o))
           /\ lastProbe' = [by |-> "sweep", n |-> s, i |-> i, outcome |-> o]
           /\ IF i < Len(agents)
              THEN /\ sweep' = [sweep EXCEPT ![s].i = i + 1,
                                              ![s].sent = @ + 1,
                                              ![s].got = @ + 1]
                   /\ inflight' = (inflight \ {<<"sweep", s, i>>})
                                      \cup {<<"sweep", s, i + 1>>}
              ELSE /\ sweep' = [sweep EXCEPT ![s].pc = "closing", ![s].got = @ + 1]
                   /\ inflight' = inflight \ {<<"sweep", s, i>>}
    /\ UNCHANGED <<disk, boot, query, loadedFrom>>
    /\ UNCHANGED <<envVars, ltmVars>>

\* After the client is closed: save_registry_statuses() and return.
SweepPersist(s) ==
    /\ sweep[s].pc = "closing"
    /\ disk' = SavedFile(disk, agents)
    /\ sweep' = [sweep EXCEPT ![s].pc = "done",
                              ![s].saved = SaveResult(disk),
                              ![s].saves = @ + 1]
    /\ UNCHANGED <<agents, boot, query, inflight, loadedFrom, lastProbe>>
    /\ UNCHANGED <<envVars, ltmVars>>

\* ------------------------------------------------------------- check_agent_live_status
\* get_agent(agent_id); None returns 'not_found' at once, otherwise the
\* probe of that agent is sent.
QueryStart(q, agent_id) ==
    /\ boot = "loaded"
    /\ query[q].pc = "idle"
    /\ \A r \in Queries : r < q => query[r].pc # "idle"
    /\ LET k == get_agent(agents, agent_id)
       IN  IF k = 0
           THEN /\ query' = [query EXCEPT ![q].pc = "done", ![q].id = agent_id,
                                           ![q].result = "not_found"]
                /\ inflight' = inflight
           ELSE /\ query' = [query EXCEPT ![q].pc = "probing", ![q].id = agent_id,
                                           ![q].i = k, ![q].sent = 1]
                /\ inflight' = inflight \cup {<<"query", q, k>>}
    /\ UNCHANGED <<disk, agents, boot, sweep, loadedFrom, lastProbe>>
    /\ UNCHANGED <<envVars, ltmVars>>

\* Variant: a probe that raises is sent once more before the agent is
\* classified.
QueryProbeDone_RetriesOnError(q, o) ==
    /\ query[q].pc = "probing"
    /\ <<"query", q, query[q].i>> \in inflight
    /\ LET i == query[q].i
       IN  IF o.err /\ query[q].sent = 1
           THEN /\ query' = [query EXCEPT ![q].sent = 2]
                /\ UNCHANGED <<agents, lastProbe, inflight>>
           ELSE /\ agents' = SetStatus(agents, i, LiveClassify(o))
                /\ lastProbe' = [by |-> "query", n |-> q, i |-> i, outcome |-> o]
                /\ inflight' = inflight \ {<<"query", q, i>>}
                /\ query' = [query EXCEPT ![q].pc = "closing", ![q].got = 1]
    /\ UNCHANGED <<disk, boot, sweep, loadedFrom>>
    /\ UNCHANGED <<envVars, ltmVars>>

\* The awaited probe of the agent comes back with outcome o: the status is
\* assigned and the `async with` block is left.
QueryProbeDone(q, o) ==
    /\ query[q].pc = "probing"
    /\ <<"query", q, query[q].i>> \in inflight
    /\ LET i == query[q].i
       IN  /\ agents' = SetStatus(agents, i, LiveClassify(o))
           /\ lastProbe' = [by |-> "query", n |-> q, i |-> i, outcome |-> o]
           /\ inflight' = inflight \ {<<"query", q, i>>}
    /\ query' = [query EXCEPT ![q].pc = "closing", ![q].got = 1]
    /\ UNCHANGED <<disk, boot, sweep, loadedFrom>>
    /\ UNCHANGED <<envVars, ltmVars>>

\* Variant: the exception of save_registry_statuses() is not caught and
\* leaves check_agent_live_status before its return statement.
QueryPersist_RaisesOnFailure(q) ==
    /\ query[q].pc = "closing"
    /\ disk' = SavedFile(disk, agents)
    /\ query' = [query EXCEPT ![q].pc = IF SaveResult(disk) = "ok" THEN "done"
                                        ELSE "raised",
                              ![q].saved = SaveResult(disk),
                              ![q].saves = @ + 1,
                              ![q].result = IF SaveResult(disk) = "ok"
                                            THEN agents[query[q].i].status
                                            ELSE @]
    /\ UNCHANGED <<agents, boot, sweep, inflight, loadedFrom, lastProbe>>
    /\ UNCHANGED <<envVars, ltmVars>>

\* save_registry_statuses(), then return agent.status as it is now.
QueryPersist(q) ==
    /\ query[q].pc = "closing"
    /\ disk' = SavedFile(disk, agents)
    /\ query' = [query EXCEPT ![q].pc = "done",
                              ![q].saved = SaveResult(disk),
                              ![q].saves = @ + 1,
                              ![q].result = agents[query[q].i].status]
    /\ UNCHANGED <<agents, boot, sweep, inflight, loadedFrom, lastProbe>>
    /\ UNCHANGED <<envVars, ltmVars>>

\* ------------------------------------------------------------- environment
\* Another process appends an entry to REGISTRY_FILE after it was loaded;
\* save_registry_statuses() reads the file anew on every call.
NoEdit == [n |-> 0, saves |-> 0]
SavesDone ==
    LET RECURSIVE SumSaves(_, _)
        SumSaves(f, S) == IF S = {} THEN 0
                          ELSE LET x == CHOOSE y \in S : TRUE
                               IN  f[x].saves + SumSaves(f, S \ {x})
    IN  SumSaves(sweep, Sweeps) + SumSaves(query, Queries)
ExternalEdit(entry) ==
    /\ boot = "loaded"
    /\ disk.state = "ok"
    /\ edit.n < MaxEdits
    /\ disk' = [disk EXCEPT !.entries = Append(@, entry), !.text = AsFound]
    /\ edit' = [n |-> edit.n + 1, saves |-> SavesDone]
    /\ UNCHANGED <<agents, boot, sweep, query, inflight, loadedFrom, lastProbe>>
    /\ UNCHANGED <<health, first, ltmVars>>

\* Another process removes REGISTRY_FILE, or leaves it with content that
\* is not JSON, after it was loaded.
ExternalDamage(file) ==
    /\ boot = "loaded"
    /\ disk.state = "ok"
    /\ edit.n < MaxEdits
    /\ disk' = file
    /\ edit' = [n |-> edit.n + 1, saves |-> SavesDone]
    /\ UNCHANGED <<agents, boot, sweep, query, inflight, loadedFrom, lastProbe>>
    /\ UNCHANGED <<health, first, ltmVars>>

\* The agents' reachability while it does not change: agent i's endpoint
\* answers every probe with health[i].
NoHealth == <<>>
Healths == [1..MaxEntries -> Outcomes]
SteadyProbeDone(s) ==
    /\ sweep[s].pc = "probing"
    /\ SweepProbeDone(s, health[sweep[s].i])

\* The caller of health_check_agents() runs it again after it returned.
NotSweptYet == [done |-> FALSE, agents |-> <<>>, disk |-> MissingFile]
SweepAgain ==
    /\ ~first.done
    /\ \A s \in Sweeps : sweep[s].pc = "done"
    /\ first' = [done |-> TRUE, agents |-> agents, disk |-> disk]
    /\ sweep' = [s \in Sweeps |-> [pc |-> "idle", i |-> 0, sent |-> 0, got |-> 0,
                                   saved |-> "no", saves |-> 0]]
    /\ UNCHANGED <<disk, agents, boot, query, inflight, loadedFrom, lastProbe>>
    /\ UNCHANGED <<health, edit, ltmVars>>

\* ------------------------------------------------------------- LongTermMemory
Transcripts == {"t1", "t2"}
PresentationIds == {"p1"}
\* Analysis results as the agent produces them: JSON objects with string
\* keys, a string, a number and a list of strings.
Results ==
    {[presentation_id |-> p, overall_score |-> n, strengths |-> l] :
        p \in {"p1"}, n \in {8}, l \in {<<>>, <<"clear">>}}
LookupCalls == 1..MaxLookups
\* Optional[dict]: None, or the dict.
None == <<>>
Some(analysis_result) == <<analysis_result>>
\* fetchone() found no row.
NoRow == [presentation_id |-> "", analysis_result |-> <<>>, access_count |-> 0]

\* _hash_transcript: SHA-256 of the text, taken as free of collisions.
hash_transcript(transcript) == <<"sha256", transcript>>

\* json.dumps of a result: the text as a sequence of tokens.
json_dumps(analysis_result) ==
    <<"{", "presentation_id", ":", analysis_result.presentation_id,
      "overall_score", ":", analysis_result.overall_score,
      "strengths", ":", "[">> \o analysis_result.strengths \o <<"]", "}">>

\* json.loads of such a text: the object is rebuilt from the tokens.
json_loads(text) ==
    [presentation_id |-> text[4],
     overall_score |-> text[7],
     strengths |-> SubSeq(text, 11, Len(text) - 2)]

\* lookup(), first part: the SELECT by transcript_hash and fetchone().
lookup_select(c, transcript) ==
    /\ ltmCalls[c].pc # "selected"
    /\ ltmCalls' = [ltmCalls EXCEPT ![c] =
                       [pc |-> "selected", transcript |-> transcript,
                        row |-> ltmRows[hash_transcript(transcript)],
                        ret |-> None, want |-> None]]
    /\ UNCHANGED <<ltmRows, ltmSaved, ltmHits>>
    /\ UNCHANGED <<regVars, envVars>>

\* lookup(), second part: on a hit the UPDATE writes the access_count that
\* was read, plus one (and last_accessed, left out here), commits and
\* returns json.loads(analysis_result); on a miss None is returned.  The
\* local row ends with the call.
lookup_return(c) ==
    /\ ltmCalls[c].pc = "selected"
    /\ LET call == ltmCalls[c]
           h == hash_transcript(call.transcript)
       IN  IF call.row = NoRow
           THEN /\ ltmCalls' = [ltmCalls EXCEPT ![c].pc = "returned",
                                                ![c].row = NoRow,
                                                ![c].ret = None,
                                                ![c].want = ltmSaved[call.transcript]]
                /\ ltmRows' = ltmRows
                /\ ltmHits' = ltmHits
           ELSE /\ call.row.access_count < MaxAccess
                /\ ltmCalls' = [ltmCalls EXCEPT
                                   ![c].pc = "returned",
                                   ![c].row = NoRow,
                                   ![c].ret = Some(json_loads(call.row.analysis_result)),
                                   ![c].want = ltmSaved[call.transcript]]
                /\ ltmRows' = IF ltmRows[h] = NoRow THEN ltmRows
                              ELSE [ltmRows EXCEPT
                                       ![h].access_count = call.row.access_count + 1]
                /\ ltmHits' = [ltmHits EXCEPT ![call.transcript] = @ + 1]
    /\ UNCHANGED ltmSaved
    /\ UNCHANGED <<regVars, envVars>>

\* Variant: INSERT OR IGNORE: a transcript saved before keeps its row.
save_KeepsFirst(transcript, presentation_id, analysis_result) ==
    /\ ltmRows' = IF ltmRows[hash_transcript(transcript)] # NoRow THEN ltmRows
                  ELSE [ltmRows EXCEPT ![hash_transcript(transcript)] =
                           [presentation_id |-> presentation_id,
                            analysis_result |-> json_dumps(analysis_result),
                            access_count |-> 1]]
    /\ ltmSaved' = [ltmSaved EXCEPT ![transcript] = Some(analysis_result)]
    /\ ltmHits' = [ltmHits EXCEPT ![transcript] = 0]
    /\ UNCHANGED ltmCalls
    /\ UNCHANGED <<regVars, envVars>>

\* save(): INSERT OR REPLACE of the row of the transcript's hash, with
\* json.dumps(analysis_result) and access_count 1 (created_at and
\* last_accessed are left out here).
save(transcript, presentation_id, analysis_result) ==
    /\ ltmRows' = [ltmRows EXCEPT ![hash_transcript(transcript)] =
                      [presentation_id |-> presentation_id,
                       analysis_result |-> json_dumps(analysis_result),
                       access_count |-> 1]]
    /\ ltmSaved' = [ltmSaved EXCEPT ![transcript] = Some(analysis_result)]
    /\ ltmHits' = [ltmHits EXCEPT ![transcript] = 0]
    /\ UNCHANGED ltmCalls
    /\ UNCHANGED <<regVars, envVars>>

\* clear_cache(): DELETE FROM analysis_cache.
clear_cache ==
    /\ ltmRows' = [h \in DOMAIN ltmRows |-> NoRow]
    /\ ltmSaved' = [t \in Transcripts |-> None]
    /\ ltmHits' = [t \in Transcripts |-> 0]
    /\ UNCHANGED ltmCalls
    /\ UNCHANGED <<regVars, envVars>>

\* get_stats(): COUNT(*) and SUM(access_count) - COUNT(*).
get_stats ==
    LET hs == {h \in DOMAIN ltmRows : ltmRows[h] # NoRow}
        RECURSIVE SumAccess(_)
        SumAccess(S) == IF S = {} THEN 0
                        ELSE LET h == CHOOSE x \in S : TRUE
                             IN  ltmRows[h].access_count + SumAccess(S \ {h})
    IN  [total_cached_analyses |-> Cardinality(hs),
         total_cache_hits |-> SumAccess(hs) - Cardinality(hs)]

\* No lookup() is between its SELECT and its return.
NoLookupRunning == \A c \in LookupCalls : ltmCalls[c].pc # "selected"

\* ------------------------------------------------------------- specification
\* No agent loaded, no call of the registry begun.
RegistryIdle ==
    /\ agents = <<>>
    /\ boot = "start"
    /\ sweep = [s \in Sweeps |-> [pc |-> "idle", i |-> 0, sent |-> 0, got |-> 0,
                                  saved |-> "no", saves |-> 0]]
    /\ query = [q \in Queries |-> [pc |-> "idle", id |-> "", i |-> 0, sent |-> 0,
                                   got |-> 0, saved |-> "no", saves |-> 0,
                                   result |-> ""]]
    /\ inflight = {}
    /\ loadedFrom = MissingFile
    /\ lastProbe = NoProbe

RegistryInit ==
    /\ disk \in {OkFile(f, w) : f \in Files, w \in BOOLEAN} \cup {MissingFile, CorruptFile}
    /\ RegistryIdle

\* The table after initialize() on a new database; no call has begun.
LtmInit ==
    /\ ltmRows = [h \in {hash_transcript(t) : t \in Transcripts} |-> NoRow]
    /\ ltmCalls = [c \in LookupCalls |->
                      [pc |-> "idle", transcript |-> "", row |-> NoRow,
                       ret |-> None, want |-> None]]
    /\ ltmSaved = [t \in Transcripts |-> None]
    /\ ltmHits = [t \in Transcripts |-> 0]

EnvInit ==
    /\ health = NoHealth
    /\ first = NotSweptYet
    /\ edit = NoEdit

Init ==
    /\ RegistryInit
    /\ EnvInit
    /\ LtmInit

Next ==
    \/ load_registry
    \/ \E s \in Sweeps : SweepStart(s)
    \/ \E s \in Sweeps, o \in Outcomes : SweepProbeDone(s, o)
    \/ \E s \in Sweeps : SweepPersist(s)
    \/ \E q \in Queries, agent_id \in Ids : QueryStart(q, agent_id)
    \/ \E q \in Queries, o \in Outcomes : QueryProbeDone(q, o)
    \/ \E q \in Queries : QueryPersist(q)

Spec == Init /\ [][Next]_vars

\* The registry with another process appending entries to the file.
NextEdit ==
    \/ Next
    \/ \E entry \in EntryPool : ExternalEdit(entry)
    \/ \E file \in {MissingFile, CorruptFile} : ExternalDamage(file)

SpecEdit == Init /\ [][NextEdit]_vars

\* Rounds of sweeps over agents whose reachability does not change.
InitSteady ==
    /\ RegistryInit
    /\ health \in Healths
    /\ first = NotSweptYet
    /\ edit = NoEdit
    /\ LtmInit

NextSteady ==
    \/ load_registry
    \/ \E s \in Sweeps : SweepStart(s)
    \/ \E s \in Sweeps : SteadyProbeDone(s)
    \/ \E s \in Sweeps : SweepPersist(s)
    \/ SweepAgain

SpecSteady == InitSteady /\ [][NextSteady]_vars

\* The long-term memory, its calls made one after the other, lookups also
\* side by side.
NextLtm ==
    \/ \E c \in LookupCalls, transcript \in Transcripts : lookup_select(c, transcript)
    \/ \E c \in LookupCalls : lookup_return(c)
    \/ /\ NoLookupRunning
       /\ \E transcript \in Transcripts, presentation_id \in PresentationIds,
             analysis_result \in Results :
             save(transcript, presentation_id, analysis_result)
    \/ /\ NoLookupRunning
       /\ clear_cache

InitLtm ==
    /\ disk = MissingFile
    /\ RegistryIdle
    /\ EnvInit
    /\ LtmInit

SpecLtm == InitLtm /\ [][NextLtm]_vars

\* The registry on an event loop that runs every coroutine that can go on,
\* with every probe resolving (a response, an error or the 3 s timeout):
\* a call that has started is not left waiting forever.
Fairness ==
    /\ \A s \in Sweeps :
          /\ WF_vars(\E o \in Outcomes : SweepProbeDone(s, o))
          /\ WF_vars(SweepPersist(s))
    /\ \A q \in Queries :
          /\ WF_vars(\E o \in Outcomes : QueryProbeDone(q, o))
          /\ WF_vars(QueryPersist(q))

SpecFair == Init /\ [][Next]_vars /\ Fairness

TypeOK ==
    /\ boot \in {"start", "loaded", "raised"}
    /\ \A k \in 1..Len(agents) : agents[k].status \in Statuses /\ agents[k].id \in Ids
    /\ \A s \in Sweeps : sweep[s].pc \in {"idle", "probing", "closing", "done"}
    /\ \A q \in Queries : query[q].pc \in {"idle", "probing", "closing", "done"}

\* ------------------------------------------------------------- derived
Is2xx(code) == code >= 200 /\ code < 300

\* The entries load_registry() keeps, in file order.
IsLoadable(e) == e.id # Absent /\ e.url # Absent
LoadableEntries(file) == SelectSeq(file.entries, IsLoadable)

\* A probe of agent i has completed since load.
Probed(i) ==
    \/ \E s \in Sweeps : sweep[s].got >= i
    \/ \E q \in Queries : query[q].got = 1 /\ query[q].i = i

\* The status the code that completed the last probe assigns for its outcome.
LastProbeClass ==
    IF lastProbe.by = "sweep" THEN SweepClassify(lastProbe.outcome)
    ELSE LiveClassify(lastProbe.outcome)

\* A status changes only in a step that completes a probe of that agent.
StatusChangesOnlyByProbe ==
    \A i \in 1..Len(agents) :
        (Len(agents') = Len(agents) /\ agents'[i].status # agents[i].status)
            => (lastProbe' # lastProbe /\ lastProbe'.i = i)

\* ------------------------------------------------------------- C1
\* C1 as stated: after load_registry() and before any probe of an agent has
\* completed, the agent's status is 'unknown' whatever the file carried.
C1_UnknownAfterLoad ==
    boot = "loaded" =>
        \A i \in 1..Len(agents) : ~Probed(i) => agents[i].status = "unknown"

\* C1 amended: after load_registry() and before any probe of an agent has
\* completed, the agent's status is the 'status' its file entry carried, and
\* 'unknown' only when the entry carried none.
C1_StatusFromFile ==
    boot = "loaded" =>
        /\ Len(agents) = Len(LoadableEntries(loadedFrom))
        /\ \A i \in 1..Len(agents) :
              ~Probed(i) =>
                  LET e == LoadableEntries(loadedFrom)[i]
                  IN  /\ e.status # Absent => agents[i].status = e.status
                      /\ e.status = Absent => agents[i].status = "unknown"

C1_Witness ==
    /\ boot = "loaded"
    /\ \E i \in 1..Len(agents) :
          /\ ~Probed(i)
          /\ LoadableEntries(loadedFrom)[i].status = "healthy"
          /\ agents[i].status = "healthy"
    /\ \E j \in 1..Len(agents) : Probed(j)

\* ------------------------------------------------------------- C2
\* C2 as stated: a probe answered 2xx with a body that is not parseable sets
\* the agent 'offline', in the sweep and in the live query alike.
C2_Bare2xxIsOffline ==
    (/\ lastProbe.by # "none"
     /\ ~lastProbe.outcome.err
     /\ Is2xx(lastProbe.outcome.code)
     /\ lastProbe.outcome.body = "unparseable")
        => agents[lastProbe.i].status = "offline"

\* ------------------------------------------------------------- C3
\* C3 as stated: a sweep's probe answered with any 2xx and a JSON object
\* whose 'status' is 'healthy' leaves the agent 'healthy' when the sweep is
\* done.
C3_Any2xxHealthy ==
    (/\ lastProbe.by = "sweep"
     /\ ~lastProbe.outcome.err
     /\ Is2xx(lastProbe.outcome.code)
     /\ lastProbe.outcome.body = "healthy_object"
     /\ sweep[lastProbe.n].pc = "done")
        => agents[lastProbe.i].status = "healthy"

\* C3 amended: a sweep's probe answered with status code 200 and a JSON
\* object whose 'status' is 'healthy' sets the agent 'healthy', and the
\* status stays so until another probe of that agent completes.
C3_Healthy200State ==
    (/\ lastProbe.by = "sweep"
     /\ ~lastProbe.outcome.err
     /\ lastProbe.outcome.code = 200
     /\ lastProbe.outcome.body = "healthy_object")
        => agents[lastProbe.i].status = "healthy"

C3_Code200Healthy == []C3_Healthy200State /\ [][StatusChangesOnlyByProbe]_vars

C3_Witness ==
    /\ lastProbe.by = "sweep"
    /\ lastProbe.outcome = [err |-> FALSE, code |-> 200, body |-> "healthy_object"]
    /\ sweep[lastProbe.n].pc = "done"
    /\ agents[lastProbe.i].status = "healthy"

\* ------------------------------------------------------------- C4
\* C4 as stated: a sweep's probe that fails in transport, is answered with
\* a code outside 2xx, or is answered 2xx with a parseable body without
\* 'status' = 'healthy', leaves the agent 'offline'.
C4_FailedProbeIsOffline ==
    (/\ lastProbe.by = "sweep"
     /\ \/ lastProbe.outcome.err
        \/ ~Is2xx(lastProbe.outcome.code)
        \/ lastProbe.outcome.body \in {"other_object", "non_object"})
        => agents[lastProbe.i].status = "offline"

\* ------------------------------------------------------------- C5
\* A step in which save_registry_statuses() ran and wrote the file.
SaveSucceeds ==
    \/ \E s \in Sweeps : sweep'[s].saves = sweep[s].saves + 1 /\ sweep'[s].saved = "ok"
    \/ \E q \in Queries : query'[q].saves = query[q].saves + 1 /\ query'[q].saved = "ok"

\* Number, order and every field but 'status' of the file's entries are kept.
SaveKeepsOtherFields ==
    /\ disk'.state = disk.state
    /\ Len(disk'.entries) = Len(disk.entries)
    /\ \A k \in 1..Len(disk.entries) :
          /\ disk'.entries[k].id = disk.entries[k].id
          /\ disk'.entries[k].url = disk.entries[k].url

\* C5 as stated: after a successful save_registry_statuses() every file
\* entry whose id matches a loaded agent carries that agent's in-memory
\* status, and number, order and the other fields of the entries are kept.
C5_SaveWritesEachAgentsStatus ==
    [][SaveSucceeds =>
          /\ SaveKeepsOtherFields
          /\ \A k \in 1..Len(disk.entries) : \A i \in 1..Len(agents) :
                agents[i].id = disk.entries[k].id
                    => disk'.entries[k].status = agents'[i].status]_vars

\* C5 amended: after a successful save_registry_statuses() every file entry
\* whose id matches a loaded agent carries the in-memory status of the last
\* loaded agent with that id (of that agent, when ids are unique), and
\* number, order and the other fields of the entries are kept.
C5_SaveWritesLastAgentsStatus ==
    [][SaveSucceeds =>
          /\ SaveKeepsOtherFields
          /\ \A k \in 1..Len(disk.entries) : \A i \in 1..Len(agents) :
                (/\ agents[i].id = disk.entries[k].id
                 /\ \A j \in (i + 1)..Len(agents) : agents[j].id # agents[i].id)
                    => disk'.entries[k].status = agents'[i].status]_vars

\* A written file in which an entry's status was changed to its agent's.
C5_Witness ==
    /\ \E s \in Sweeps : sweep[s].saved = "ok"
    /\ Len(disk.entries) = 2
    /\ \E k \in 1..Len(disk.entries) : \E i \in 1..Len(agents) :
          /\ agents[i].id = disk.entries[k].id
          /\ disk.entries[k].status = agents[i].status
          /\ loadedFrom.entries[k].status # disk.entries[k].status
    /\ \E k \in 1..Len(disk.entries) : ~HasId(agents, disk.entries[k].id)

\* ------------------------------------------------------------- C6
\* C6: for an id that matches no loaded agent get_agent returns None, and
\* check_agent_live_status returns 'not_found' in one step that sends no
\* probe, changes no status and does not call save_registry_statuses().
C6_NotFoundStep ==
    \A q \in Queries :
        (/\ query[q].pc = "idle"
         /\ query'[q].pc # "idle"
         /\ \A i \in 1..Len(agents) : agents[i].id # query'[q].id)
            => /\ get_agent(agents, query'[q].id) = 0
               /\ query'[q].pc = "done"
               /\ query'[q].result = "not_found"
               /\ query'[q].sent = 0
               /\ query'[q].saves = 0
               /\ inflight' = inflight
               /\ agents' = agents
               /\ disk' = disk

C6_NotFoundState ==
    \A q \in Queries :
        (query[q].pc # "idle" /\ \A i \in 1..Len(agents) : agents[i].id # query[q].id)
            => /\ query[q].pc = "done"
               /\ query[q].result = "not_found"
               /\ query[q].sent = 0
               /\ query[q].saves = 0
               /\ \A i \in 1..Len(agents) : <<"query", q, i>> \notin inflight

C6_NotFound == []C6_NotFoundState /\ [][C6_NotFoundStep]_vars

C6_Witness ==
    \E q \in Queries :
        /\ query[q].pc = "done"
        /\ query[q].result = "not_found"
        /\ agents # <<>>
        /\ \A i \in 1..Len(agents) : agents[i].id # query[q].id

\* ------------------------------------------------------------- C7
SweepOutstanding(s) == {p \in inflight : p[1] = "sweep" /\ p[2] = s}

\* C7 as stated: all probes of a sweep are sent before any of them is
\* awaited, so a sweep that is waiting for a probe has sent one to every
\* agent.
C7_AllSentBeforeAwait ==
    \A s \in Sweeps : sweep[s].pc = "probing" => sweep[s].sent = Len(agents)

\* C7 amended: within one sweep the probes are sent one after the other: at
\* most one probe of the sweep is outstanding, and the probe of the next
\* agent is sent only when the probes of all agents before it have resolved.
C7_OneProbeAtATime ==
    \A s \in Sweeps :
        /\ Cardinality(SweepOutstanding(s)) <= 1
        /\ sweep[s].sent <= sweep[s].got + 1
        /\ \A p \in SweepOutstanding(s) : p[3] = sweep[s].got + 1

C7_Witness ==
    \E s \in Sweeps :
        /\ Len(agents) = 2
        /\ sweep[s].got = 1
        /\ SweepOutstanding(s) = {<<"sweep", s, 2>>}

\* ------------------------------------------------------------- C8
\* C8: a sweep calls save_registry_statuses() exactly once, and only when
\* every probe it sent has resolved and every agent's status was assigned.
C8_SaveOnceAfterAllProbes ==
    \A s \in Sweeps :
        /\ sweep[s].saves <= 1
        /\ sweep[s].pc = "done" => sweep[s].saves = 1
        /\ sweep[s].saves >= 1 =>
              /\ sweep[s].got = Len(agents)
              /\ sweep[s].sent = sweep[s].got
              /\ SweepOutstanding(s) = {}

C8_Witness ==
    \E s \in Sweeps :
        /\ sweep[s].pc = "done"
        /\ sweep[s].saves = 1
        /\ sweep[s].got = 2

\* ------------------------------------------------------------- C9
\* Every execution has returned, and every save_registry_statuses() wrote.
AllReturned ==
    /\ \A s \in Sweeps : sweep[s].pc = "done" /\ sweep[s].saved = "ok"
    /\ \A q \in Queries : query[q].pc = "done" /\ query[q].saved # "failed"

\* C9 as stated: when interleaved sweeps and live queries have all returned
\* and written, each agent has the status of the last probe of it and every
\* file entry with a loaded id carries that agent's in-memory status.
C9_DiskEqualsEachAgent ==
    AllReturned =>
        /\ lastProbe.by # "none" => agents[lastProbe.i].status = LastProbeClass
        /\ \A k \in 1..Len(disk.entries) : \A i \in 1..Len(agents) :
              agents[i].id = disk.entries[k].id
                  => disk.entries[k].status = agents[i].status

\* C9 amended: ... every file entry with a loaded id carries the in-memory
\* status of the last loaded agent with that id (of that agent, when ids
\* are unique).
C9_DiskEqualsLastAgent ==
    AllReturned =>
        /\ lastProbe.by # "none" => agents[lastProbe.i].status = LastProbeClass
        /\ \A k \in 1..Len(disk.entries) : \A i \in 1..Len(agents) :
              (/\ agents[i].id = disk.entries[k].id
               /\ \A j \in (i + 1)..Len(agents) : agents[j].id # agents[i].id)
                  => disk.entries[k].status = agents[i].status

\* A sweep and a live query have probed the same agent and both have
\* written: the sweep's probe came last and replaced the status the query
\* had returned, and the file carries the final statuses.
C9_Witness ==
    /\ AllReturned
    /\ lastProbe.by = "sweep"
    /\ \E q \in Queries :
          /\ query[q].saved = "ok"
          /\ query[q].i = lastProbe.i
          /\ query[q].result # agents[lastProbe.i].status
    /\ Len(agents) = 2
    /\ agents[1].id # agents[2].id
    /\ \A k \in 1..Len(disk.entries) : disk.entries[k].status = agents[k].status

\* ------------------------------------------------------------- C10
\* C10 as stated: a status is the class of the agent's latest completed
\* probe, or 'unknown' when none has completed since load.
C10_LatestProbeOrUnknown ==
    /\ lastProbe.by # "none" => agents[lastProbe.i].status = LastProbeClass
    /\ \A i \in 1..Len(agents) : ~Probed(i) => agents[i].status = "unknown"

\* C10 amended: a status is the class of the agent's latest completed
\* probe, or, when none has completed since load, the status load_registry()
\* gave the agent (the file's, 'unknown' without one); only the completion
\* of a probe of that agent changes it.
C10_LatestProbeOrLoadedState ==
    /\ lastProbe.by # "none" => agents[lastProbe.i].status = LastProbeClass
    /\ \A i \in 1..Len(agents) :
          ~Probed(i) =>
              agents[i].status =
                  IF LoadableEntries(loadedFrom)[i].status = Absent
                  THEN "unknown"
                  ELSE LoadableEntries(loadedFrom)[i].status

C10_LatestProbeOrLoaded ==
    []C10_LatestProbeOrLoadedState /\ [][StatusChangesOnlyByProbe]_vars

\* A live query's probe overwrote the status a sweep's probe had given.
C10_Witness ==
    /\ lastProbe.by = "query"
    /\ \E s \in Sweeps : sweep[s].got >= lastProbe.i /\ sweep[s].pc = "probing"
    /\ agents[lastProbe.i].status = "healthy"
    /\ \E i \in 1..Len(agents) : ~Probed(i) /\ agents[i].status = "offline"

\* ------------------------------------------------------------- C11
\* C11: when save_registry_statuses() fails (the file cannot be read or
\* written), the sweep or live query still ends normally after that one
\* call, the live query returns the status its probe gave, and the status
\* assigned by the latest probe stays in memory: no rollback, no retry.
C11_SaveFailureIsSilent ==
    /\ \A s \in Sweeps :
          /\ sweep[s].saved = "failed" => sweep[s].pc = "done" /\ sweep[s].saves = 1
          /\ sweep[s].pc = "done" => sweep[s].saved \in {"ok", "failed"}
    /\ \A q \in Queries :
          /\ query[q].saved = "failed" =>
                /\ query[q].pc = "done"
                /\ query[q].saves = 1
                /\ query[q].result \in {"healthy", "offline"}
                /\ (lastProbe.by = "query" /\ lastProbe.n = q) =>
                      /\ query[q].result = LiveClassify(lastProbe.outcome)
                      /\ agents[query[q].i].status = query[q].result
          /\ (query[q].pc = "done" /\ query[q].sent = 1) =>
                query[q].saved \in {"ok", "failed"}
    /\ (lastProbe.by # "none" /\ \E s \in Sweeps : sweep[s].saved = "failed")
          => agents[lastProbe.i].status = LastProbeClass

\* A sweep and then a live query both failed to persist; the query
\* returned 'healthy' and the agent is 'healthy' in memory, not on disk.
C11_Witness ==
    /\ \E s \in Sweeps : sweep[s].pc = "done" /\ sweep[s].saved = "failed"
    /\ \E q \in Queries :
          /\ query[q].pc = "done"
          /\ query[q].saved = "failed"
          /\ query[q].result = "healthy"
          /\ lastProbe.by = "query"
          /\ agents[query[q].i].status = "healthy"
          /\ disk.state = "ok"
          /\ \A k \in 1..Len(disk.entries) :
                disk.entries[k].id = query[q].id => disk.entries[k].status # "healthy"

\* ------------------------------------------------------------- C12
\* C12: load_registry() never raises; with a file that is missing or
\* cannot be parsed it returns and the registry is empty.
C12_LoadNeverFails ==
    /\ boot # "raised"
    /\ (boot = "loaded" /\ loadedFrom.state # "ok") => agents = <<>>

\* ------------------------------------------------------------- C13
\* C13: after load_registry() the agents are exactly the file's entries
\* that have both 'id' and 'url', in the file's order; an entry without
\* one of them is left out and does not stop the entries after it, so the
\* number of agents is the number of entries minus the number left out.
C13_LoadSkipsOnlyInvalidEntries ==
    (boot = "loaded" /\ loadedFrom.state = "ok") =>
        LET entries == loadedFrom.entries
            skipped == {k \in 1..Len(entries) : ~IsLoadable(entries[k])}
            kept == LoadableEntries(loadedFrom)
        IN  /\ Len(agents) = Len(entries) - Cardinality(skipped)
            /\ Len(agents) = Len(kept)
            /\ \A i \in 1..Len(agents) :
                  agents[i].id = kept[i].id /\ agents[i].url = kept[i].url
            /\ \A i \in 1..Len(agents) : agents[i].id # Absent /\ agents[i].url # Absent

\* An entry without 'id' comes first in the file and the entry after it
\* has been loaded.
C13_Witness ==
    /\ boot = "loaded"
    /\ Len(loadedFrom.entries) = 2
    /\ ~IsLoadable(loadedFrom.entries[1])
    /\ IsLoadable(loadedFrom.entries[2])
    /\ Len(agents) = 1
    /\ agents[1].id = loadedFrom.entries[2].id

\* ------------------------------------------------------------- C15
\* C15: for the id of a loaded agent check_agent_live_status sends one
\* probe, to that agent and with no retry, assigns the class of its outcome
\* to the agent, calls save_registry_statuses() once and returns 'healthy'
\* or 'offline', the agent's status in memory at the moment it returns.
C15_LiveQueryState ==
    /\ \A q \in Queries :
          /\ query[q].sent <= 1
          /\ {p \in inflight : p[1] = "query" /\ p[2] = q}
                \subseteq {<<"query", q, query[q].i>>}
          /\ (query[q].pc # "idle" /\ HasId(agents, query[q].id)) =>
                /\ query[q].i = get_agent(agents, query[q].id)
                /\ query[q].sent = 1
                /\ query[q].pc = "closing" => query[q].got = 1 /\ query[q].saves = 0
                /\ query[q].pc = "done" =>
                      /\ query[q].got = 1
                      /\ query[q].saves = 1
                      /\ query[q].result \in {"healthy", "offline"}
    /\ lastProbe.by = "query" =>
          agents[lastProbe.i].status = LiveClassify(lastProbe.outcome)

C15_LiveQueryReturn ==
    \A q \in Queries :
        (/\ query[q].pc # "done"
         /\ query'[q].pc = "done"
         /\ HasId(agents, query'[q].id))
            => /\ query'[q].result = agents'[query'[q].i].status
               /\ agents' = agents

C15_LiveQuery == []C15_LiveQueryState /\ [][C15_LiveQueryReturn]_vars

\* A live query returned 'offline' for an agent the file and a completed
\* sweep had as 'healthy', and the file now says 'offline'.
C15_Witness ==
    \E q \in Queries :
        /\ query[q].pc = "done"
        /\ query[q].result = "offline"
        /\ query[q].saved = "ok"
        /\ lastProbe.by = "query"
        /\ \E s \in Sweeps : sweep[s].pc = "done"
        /\ \E k \in 1..Len(disk.entries) :
              /\ disk.entries[k].id = query[q].id
              /\ disk.entries[k].status = "offline"
              /\ loadedFrom.entries[k].status = "healthy"

\* ------------------------------------------------------------- C18
\* C18: a sweep probes each agent of the registry once, in order, whatever
\* the outcomes of the other probes, and an agent's status is the class of
\* its outcome as soon as its probe has completed, while the probes of the
\* agents after it are still to come.
C18_EachAgentProbedOnce ==
    /\ \A s \in Sweeps :
          /\ sweep[s].sent <= Len(agents)
          /\ sweep[s].got <= sweep[s].sent
          /\ sweep[s].pc = "probing" =>
                /\ sweep[s].i = sweep[s].sent
                /\ sweep[s].got = sweep[s].sent - 1
                /\ SweepOutstanding(s) = {<<"sweep", s, sweep[s].i>>}
          /\ sweep[s].pc \in {"closing", "done"} =>
                /\ sweep[s].sent = Len(agents)
                /\ sweep[s].got = Len(agents)
                /\ SweepOutstanding(s) = {}
    /\ lastProbe.by = "sweep" =>
          agents[lastProbe.i].status = SweepClassify(lastProbe.outcome)

\* The probe of the first agent raised; the agent is 'offline' already
\* while the probe of the second agent is outstanding.
C18_Witness ==
    \E s \in Sweeps :
        /\ sweep[s].pc = "probing"
        /\ sweep[s].i = 2
        /\ lastProbe.by = "sweep"
        /\ lastProbe.i = 1
        /\ lastProbe.outcome.err
        /\ agents[1].status = "offline"
        /\ LoadableEntries(loadedFrom)[1].status = "healthy"
        /\ <<"sweep", s, 2>> \in inflight

\* ------------------------------------------------------------- C19
\* C19: once loaded, the agents in memory keep their ids, urls and order
\* through sweeps, live queries and saves, and the file keeps every entry
\* with its id and url at its place: only 'status' values change.
C19_OnlyStatusChanges ==
    boot = "loaded" =>
        LET kept == LoadableEntries(loadedFrom)
        IN  /\ Len(list_agents) = Len(kept)
            /\ \A i \in 1..Len(list_agents) :
                  /\ list_agents[i].id = kept[i].id
                  /\ list_agents[i].url = kept[i].url
            /\ disk.state = loadedFrom.state
            /\ Len(disk.entries) = Len(loadedFrom.entries)
            /\ \A k \in 1..Len(disk.entries) :
                  [disk.entries[k] EXCEPT !.status = Absent]
                      = [loadedFrom.entries[k] EXCEPT !.status = Absent]

\* A sweep and a live query have both saved; the file holds an entry no
\* agent was loaded from and a status that is not the one read at load.
C19_Witness ==
    /\ \E s \in Sweeps : sweep[s].pc = "done" /\ sweep[s].saved = "ok"
    /\ \E q \in Queries : query[q].pc = "done" /\ query[q].saved = "ok"
    /\ \E k \in 1..Len(disk.entries) : ~IsLoadable(disk.entries[k])
    /\ \E k \in 1..Len(disk.entries) :
          disk.entries[k].status # loadedFrom.entries[k].status

\* ------------------------------------------------------------- C20
\* C20 as stated: no two agents in memory have the same id.
C20_UniqueIds ==
    \A i, j \in 1..Len(agents) : agents[i].id = agents[j].id => i = j

\* C20 amended: load_registry() does not de-duplicate: for every id there
\* are as many agents in memory as the file read at load has entries with
\* that id and a url, so two agents share an id exactly when two such
\* entries do.
C20_IdsAsOftenAsInFile ==
    boot = "loaded" =>
        \A aid \in Ids :
            Cardinality({i \in 1..Len(agents) : agents[i].id = aid})
                = Cardinality({k \in 1..Len(loadedFrom.entries) :
                                  /\ IsLoadable(loadedFrom.entries[k])
                                  /\ loadedFrom.entries[k].id = aid})

\* Two agents with the same id and different urls are in memory.
C20_Witness ==
    /\ boot = "loaded"
    /\ Len(agents) = 2
    /\ agents[1].id = agents[2].id
    /\ agents[1].url # agents[2].url

\* ------------------------------------------------------------- C14
\* C14: when the agents answer a second round of sweeps as they answered
\* the first, every status in memory and the whole file are after the
\* second round what they were after the first.
C14_SecondSweepChangesNothing ==
    (first.done /\ \A s \in Sweeps : sweep[s].pc = "done") =>
        /\ agents = first.agents
        /\ disk = first.disk

\* Two agents, one healthy and one offline, after the second round; the
\* first round had rewritten the file with a status it did not hold.
C14_Witness ==
    /\ first.done
    /\ \A s \in Sweeps : sweep[s].pc = "done" /\ sweep[s].saved = "ok"
    /\ Len(agents) = 2
    /\ agents[1].status # agents[2].status
    /\ disk.text = JsonDumpIndent2
    /\ loadedFrom.text = AsFound
    /\ \E k \in 1..Len(disk.entries) :
          disk.entries[k].status # loadedFrom.entries[k].status

\* ------------------------------------------------------------- C16
\* C16: a successful save_registry_statuses() writes back unchanged, at
\* its place and with its status, every entry of the file whose id is the
\* id of no loaded agent: the entries load_registry() skipped and the
\* entries added to the file after load.
C16_SaveStep ==
    SaveSucceeds =>
        /\ Len(disk'.entries) = Len(disk.entries)
        /\ \A k \in 1..Len(disk.entries) :
              ~HasId(agents, disk.entries[k].id) =>
                  disk'.entries[k] = disk.entries[k]

C16_OtherEntriesUntouched == [][C16_SaveStep]_vars

\* A sweep saved after an entry with a new id and a status had been
\* appended to a file that also holds an entry load_registry() skipped:
\* both entries are in the file as they were.
C16_Witness ==
    /\ edit.n = 1
    /\ edit.saves = 0
    /\ \E s \in Sweeps : sweep[s].pc = "done" /\ sweep[s].saved = "ok"
    /\ agents # <<>>
    /\ Len(disk.entries) = Len(loadedFrom.entries) + 1
    /\ LET added == disk.entries[Len(disk.entries)]
       IN  /\ IsLoadable(added)
           /\ ~HasId(agents, added.id)
           /\ added \in EntryPool
           /\ added.status # Absent
    /\ \E k \in 1..Len(loadedFrom.entries) :
          /\ ~IsLoadable(loadedFrom.entries[k])
          /\ disk.entries[k] = loadedFrom.entries[k]

\* ------------------------------------------------------------- C17
\* C17: over save, lookup and clear_cache calls made one after the other,
\* lookup(t) returns None when t was never saved or not saved since the
\* last clear_cache, and otherwise the result passed to the latest save of
\* t; a lookup changes only access_count, never what a lookup returns.
C17_LookupReturnsLatestSave ==
    /\ \A c \in LookupCalls :
          ltmCalls[c].pc = "returned" => ltmCalls[c].ret = ltmCalls[c].want
    /\ \A t \in Transcripts :
          LET row == ltmRows[hash_transcript(t)]
          IN  IF ltmSaved[t] = None
              THEN row = NoRow
              ELSE /\ row # NoRow
                   /\ Some(json_loads(row.analysis_result)) = ltmSaved[t]

\* Two lookups of one transcript returned different results: a save
\* replaced the first result between them, and the row counts the second
\* lookup only.
C17_Witness ==
    \E c, d \in LookupCalls :
        /\ ltmCalls[c].pc = "returned"
        /\ ltmCalls[d].pc = "returned"
        /\ ltmCalls[c].transcript = ltmCalls[d].transcript
        /\ ltmCalls[c].ret # None
        /\ ltmCalls[d].ret # None
        /\ ltmCalls[c].ret # ltmCalls[d].ret
        /\ ltmSaved[ltmCalls[d].transcript] = ltmCalls[d].ret
        /\ ltmRows[hash_transcript(ltmCalls[d].transcript)].access_count = 2
        /\ \E t \in Transcripts : ltmSaved[t] = None

\* ------------------------------------------------------------- C22
\* C22: health_check_agents and check_agent_live_status give every probe
\* outcome the same status: a transport failure, or any status code with
\* any body, is classified alike by the sweep and by the live query.
C22_SameClassification ==
    /\ \A o \in Outcomes : SweepClassify(o) = LiveClassify(o)
    /\ lastProbe.by # "none" =>
          /\ agents[lastProbe.i].status = SweepClassify(lastProbe.outcome)
          /\ agents[lastProbe.i].status = LiveClassify(lastProbe.outcome)

\* A live query got code 200 with a JSON body that is no object for an
\* agent the sweep had probed before: the agent is 'healthy', as the sweep
\* makes it for that outcome.
C22_Witness ==
    /\ lastProbe.by = "query"
    /\ lastProbe.outcome.code = 200
    /\ lastProbe.outcome.body = "non_object"
    /\ ~lastProbe.outcome.err
    /\ \E s \in Sweeps : sweep[s].got >= lastProbe.i
    /\ agents[lastProbe.i].status = "healthy"
    /\ SweepClassify(lastProbe.outcome) = "healthy"

\* ------------------------------------------------------------- C23
\* C23: with several loaded agents of one id, get_agent and the live query
\* act on the first of them in load order, and a successful save writes
\* the status of the last of them to every entry of the file with that
\* id, so the file can hold another status than the live query returned.
DuplicateId(aid) ==
    \E i, j \in 1..Len(agents) : i # j /\ agents[i].id = aid /\ agents[j].id = aid

C23_FirstProbedLastSaved ==
    \A q \in Queries :
        (query[q].pc # "idle" /\ DuplicateId(query[q].id)) =>
            /\ query[q].i = get_agent(agents, query[q].id)
            /\ \A m \in 1..Len(agents) :
                  agents[m].id = query[q].id => query[q].i <= m
            /\ query[q].i < LastWithId(agents, query[q].id)
            /\ \A p \in inflight : (p[1] = "query" /\ p[2] = q) => p[3] = query[q].i
            /\ (/\ query[q].pc = "done"
                /\ query[q].saved = "ok"
                /\ lastProbe.by = "query"
                /\ lastProbe.n = q) =>
                  /\ query[q].result = agents[query[q].i].status
                  /\ \A k \in 1..Len(disk.entries) :
                        disk.entries[k].id = query[q].id =>
                            disk.entries[k].status =
                                agents[LastWithId(agents, query[q].id)].status

\* The live query returned 'offline' for an id two agents have; every
\* entry of the file with that id says 'healthy', the status of the second
\* agent, which no probe has reached.
C23_Witness ==
    \E q \in Queries :
        /\ query[q].pc = "done"
        /\ query[q].saved = "ok"
        /\ query[q].result = "offline"
        /\ DuplicateId(query[q].id)
        /\ lastProbe.by = "query"
        /\ \A s \in Sweeps : sweep[s].pc = "idle"
        /\ \A k \in 1..Len(disk.entries) :
              disk.entries[k].id = query[q].id => disk.entries[k].status = "healthy"
        /\ \E k \in 1..Len(disk.entries) : disk.entries[k].id = query[q].id

\* ------------------------------------------------------------- C24
\* C24: when the registry file is missing or does not hold JSON at the
\* moment save_registry_statuses() runs, the call writes nothing: the file
\* is neither created nor truncated, and a registry loaded from a missing
\* file is still without a file after its sweeps and live queries.
SaveAttempted ==
    \/ \E s \in Sweeps : sweep'[s].saves = sweep[s].saves + 1
    \/ \E q \in Queries : query'[q].saves = query[q].saves + 1

C24_SaveStep ==
    (SaveAttempted /\ disk.state # "ok") =>
        /\ disk' = disk
        /\ \A s \in Sweeps :
              sweep'[s].saves = sweep[s].saves + 1 => sweep'[s].saved = "failed"
        /\ \A q \in Queries :
              query'[q].saves = query[q].saves + 1 => query'[q].saved = "failed"

C24_StillMissing ==
    (boot = "loaded" /\ loadedFrom.state = Missing) =>
        /\ disk = MissingFile
        /\ list_agents = <<>>

C24_NoFileCreated == []C24_StillMissing /\ [][C24_SaveStep]_vars

\* The file was loaded with agents and then lost its JSON content; a
\* sweep and a live query ran their save after that, and the file is as
\* the damage left it.
C24_Witness ==
    /\ loadedFrom.state = "ok"
    /\ agents # <<>>
    /\ edit.n = 1
    /\ edit.saves = 0
    /\ disk = CorruptFile
    /\ \E s \in Sweeps :
          sweep[s].pc = "done" /\ sweep[s].saved = "failed" /\ sweep[s].got >= 1
    /\ \E q \in Queries : query[q].pc = "done" /\ query[q].saved = "failed"

\* ------------------------------------------------------------- C25
\* C25: with lookup() calls running side by side, total_cache_hits of
\* get_stats() is the number of lookups that returned the cached result
\* of an entry now in the cache, counted since the entry's latest save (no
\* increment of access_count is lost), and it is never negative.
C25_EveryHitCounted ==
    LET cached == {t \in Transcripts : ltmRows[hash_transcript(t)] # NoRow}
        RECURSIVE SumHits(_)
        SumHits(S) == IF S = {} THEN 0
                      ELSE LET t == CHOOSE x \in S : TRUE
                           IN  ltmHits[t] + SumHits(S \ {t})
    IN  /\ get_stats.total_cache_hits >= 0
        /\ NoLookupRunning => get_stats.total_cache_hits = SumHits(cached)

\* ------------------------------------------------------------- C21
\* C21: when every probe resolves, a sweep that has started goes on to
\* probe every agent, whatever the earlier probes gave, runs its save and
\* returns, and a live query that has started returns a status.
C21_EveryCallReturns ==
    /\ \A s \in Sweeps :
          (sweep[s].pc # "idle") ~>
              (/\ sweep[s].pc = "done"
               /\ sweep[s].got = Len(agents)
               /\ sweep[s].saves = 1)
    /\ \A q \in Queries :
          (query[q].pc # "idle") ~>
              (/\ query[q].pc = "done"
               /\ query[q].result \in {"healthy", "offline", "not_found"})

\* A sweep over two agents has returned after the probe of its last agent
\* raised, and a live query has returned a status.
C21_Witness ==
    /\ Len(agents) = 2
    /\ \E s \in Sweeps :
          /\ sweep[s].pc = "done"
          /\ sweep[s].got = 2
          /\ sweep[s].saves = 1
          /\ lastProbe.by = "sweep"
          /\ lastProbe.n = s
          /\ lastProbe.i = 2
          /\ lastProbe.outcome.err
    /\ \E q \in Queries :
          query[q].pc = "done" /\ query[q].result \in {"healthy", "offline"}

====
